---- MODULE Spec2Model ----
(***************************************************************************)
(* Model of app/routes/form-json.tsx: the questionnaire editor route.      *)
(*                                                                         *)
(*   - formSchema / questionSchema (zod) as the operator SafeParse;        *)
(*   - the server `action`: qs.parse(allowDots), safeParse, redirect or    *)
(*     json({errors}) built with lodash set;                               *)
(*   - the FormJson component: react-hook-form values and errors, the      *)
(*     question field array, the reset effect, the precedence between the  *)
(*     live and the server error tree, and what the three components       *)
(*     render.                                                             *)
(*                                                                         *)
(* JavaScript values are represented as follows.  `undefined` is the       *)
(* string Undefined; an array-valued property is a record                  *)
(* [kind, items] with kind "undefined" when the property is absent; an     *)
(* object tree whose leaves are strings (the error trees) is the set of    *)
(* its leaves [path, val]; any non-leaf object is the string Object when   *)
(* it is only tested for truthiness.  Path segments are strings, array     *)
(* indices included ("0", "1", ...), as qs and lodash see them.            *)
(***************************************************************************)
EXTENDS Integers, Sequences, FiniteSets, TLC

\* ---------------------------------------------------------------- bounds
\* Most questions the editor may hold (the template has three).
MaxQuestions == 4
\* Most options a question's field array may hold in the editor.
MaxOptions == 1
\* Most value-changing interactions of one editing session.
MaxEdits == 4
\* Most questions of a request body posted to the action from outside the
\* editor.
MaxBodyQuestions == 2

\* ------------------------------------------------------------ JS values
Undefined == "undefined"
Object == "[object Object]"

NoArr == [kind |-> "undefined", items |-> <<>>]
Arr(items) == [kind |-> "array", items |-> items]

Truthy(x) == x # Undefined /\ x # ""

Digits == <<"0", "1", "2", "3", "4", "5", "6", "7", "8", "9">>
Idx(i) == Digits[i + 1]
IndexOf(s) == CHOOSE i \in 0..9 : Digits[i + 1] = s

IsPrefix(p, q) == Len(p) <= Len(q) /\ SubSeq(q, 1, Len(p)) = p

\* ------------------------------------------------------- lodash set / get
\* set(object, path, value) on a tree of string leaves: the walk replaces a
\* non-object found on the way by a fresh container and the assignment at
\* the last segment replaces whatever subtree was there.
Set(tree, path, val) ==
    {l \in tree : ~IsPrefix(l.path, path) /\ ~IsPrefix(path, l.path)}
        \cup {[path |-> path, val |-> val]}

\* get(object, path): the leaf, a container, or undefined (a property of a
\* string leaf, such as "Title required".message, is undefined).
Get(tree, path) ==
    IF \E l \in tree : l.path = path
    THEN (CHOOSE l \in tree : l.path = path).val
    ELSE IF \E l \in tree : IsPrefix(path, l.path) THEN Object ELSE Undefined

IsEmpty(tree) == tree = {}

\* ------------------------------------------------------------- the schema
QuestionTypes == {"TEXT", "NUMBER", "RADIOLIST"}

Issue(path, message, code) == [path |-> path, message |-> message, code |-> code]

\* z.string().nonempty(message)
NonEmptyString(path, s, message) ==
    IF s = Undefined THEN <<Issue(path, "Required", "invalid_type")>>
    ELSE IF s = "" THEN <<Issue(path, message, "too_small")>>
    ELSE <<>>

\* z.enum(['TEXT', 'NUMBER', 'RADIOLIST'])
TypeEnum(path, s) ==
    IF s = Undefined THEN <<Issue(path, "Required", "invalid_type")>>
    ELSE IF s \notin QuestionTypes
         THEN <<Issue(path, "Invalid enum value", "invalid_enum_value")>>
         ELSE <<>>

RECURSIVE OptionItems(_, _, _)
OptionItems(path, items, n) ==
    IF n = 0 THEN <<>>
    ELSE OptionItems(path, items, n - 1)
           \o NonEmptyString(path \o <<Idx(n - 1), "label">>, items[n].label,
                             "Label required")

\* z.array(z.object({label})).optional()
OptionsSchema(path, options) ==
    IF options.kind = "undefined" THEN <<>>
    ELSE OptionItems(path, options.items, Len(options.items))

questionSchema(path, q) ==
    NonEmptyString(path \o <<"name">>, q.name, "Name required")
      \o TypeEnum(path \o <<"type">>, q.type)
      \o OptionsSchema(path \o <<"options">>, q.options)

RECURSIVE QuestionItems(_, _)
QuestionItems(items, n) ==
    IF n = 0 THEN <<>>
    ELSE QuestionItems(items, n - 1)
           \o questionSchema(<<"questions", Idx(n - 1)>>, items[n])

formSchema(v) ==
    NonEmptyString(<<"title">>, v.title, "Title required")
      \o (IF v.questions.kind = "undefined"
          THEN <<Issue(<<"questions">>, "Required", "invalid_type")>>
          ELSE QuestionItems(v.questions.items, Len(v.questions.items)))

\* A validation that gives up at the first violation.
SafeParseFirstOnly(v) ==
    IF formSchema(v) = <<>> THEN <<>> ELSE <<Head(formSchema(v))>>

\* formSchema.safeParse(v).error.issues, <<>> on success.
SafeParse(v) == formSchema(v)

\* ------------------------------------------------------------ error trees
\* action: issues.reduce((errors, issue) => set(errors, issue.path,
\* issue.message), {}): the message string itself is the value at the path.
RECURSIVE ReduceIssues(_, _)
ReduceIssues(issues, n) ==
    IF n = 0 THEN {}
    ELSE Set(ReduceIssues(issues, n - 1), issues[n].path, issues[n].message)

ErrorTree(issues) == ReduceIssues(issues, Len(issues))

\* zodResolver(formSchema): the first issue of each path becomes the
\* FieldError {message, type} at that path of formState.errors.
RECURSIVE ResolverErrors(_, _)
ResolverErrors(issues, n) ==
    IF n = 0 THEN {}
    ELSE LET sofar == ResolverErrors(issues, n - 1)
             i == issues[n]
         IN IF Get(sofar, i.path) # Undefined THEN sofar
            ELSE Set(Set(sofar, i.path \o <<"message">>, i.message),
                     i.path \o <<"type">>, i.code)

zodResolver(v) == ResolverErrors(SafeParse(v), Len(SafeParse(v)))

\* reValidateMode 'onChange' (the useForm default): once the form has been
\* submitted, a change of one field re-runs the resolver and replaces the
\* error of that field alone.
Revalidate(errs, submitted, v, path) ==
    IF ~submitted THEN errs
    ELSE {l \in errs : ~IsPrefix(path, l.path)}
           \cup {l \in zodResolver(v) : IsPrefix(path, l.path)}

\* The server tree first, whatever the live tree holds.
ServerErrorsFirst(data, errs) == IF data.present THEN data.errors ELSE errs

\* const validationErrors =
\*   actionData?.errors && isEmpty(errors) ? actionData.errors : errors
ValidationErrors(data, errs) ==
    IF data.present /\ IsEmpty(errs) THEN data.errors ELSE errs

\* ------------------------------------------------- the wire format (qs)
Pair(key, val) == [key |-> key, val |-> val]

RECURSIVE LabelPairs(_, _, _)
LabelPairs(qi, items, n) ==
    IF n = 0 THEN <<>>
    ELSE LabelPairs(qi, items, n - 1)
           \o <<Pair(<<"questions", qi, "options", Idx(n - 1), "label">>,
                     items[n].label)>>

\* The inputs QuestionEditor and RadioOptionEditor put in the form for one
\* question: name, type, and the option labels only while the options
\* editor is rendered.
QuestionPairs(qi, q) ==
    <<Pair(<<"questions", qi, "name">>, q.name),
      Pair(<<"questions", qi, "type">>, q.type)>>
      \o (IF q.type = "RADIOLIST"
          THEN LabelPairs(qi, q.options.items, Len(q.options.items))
          ELSE <<>>)

RECURSIVE FlattenQuestions(_, _)
FlattenQuestions(items, n) ==
    IF n = 0 THEN <<>>
    ELSE FlattenQuestions(items, n - 1) \o QuestionPairs(Idx(n - 1), items[n])

\* submit(e.target): the successful controls of the rendered <Form>, each
\* under the name it was registered with.
Flatten(v) ==
    <<Pair(<<"title">>, v.title)>>
      \o FlattenQuestions(v.questions.items, Len(v.questions.items))

Val(body, key) ==
    IF \E k \in 1..Len(body) : body[k].key = key
    THEN body[CHOOSE k \in 1..Len(body) : body[k].key = key].val
    ELSE Undefined

\* The n-th smallest index of S: qs compacts the arrays it builds.
Nth(S, n) == CHOOSE x \in S : Cardinality({y \in S : y < x}) = n - 1

ParseOptions(body, qi) ==
    LET js == {IndexOf(body[k].key[4]) :
                 k \in {k \in 1..Len(body) :
                          /\ Len(body[k].key) >= 4
                          /\ SubSeq(body[k].key, 1, 3) = <<"questions", qi, "options">>}}
    IN IF js = {} THEN NoArr
       ELSE Arr([n \in 1..Cardinality(js) |->
                   [label |-> Val(body, <<"questions", qi, "options",
                                          Idx(Nth(js, n)), "label">>)]])

ParseQuestion(body, qi) ==
    [name |-> Val(body, <<"questions", qi, "name">>),
     type |-> Val(body, <<"questions", qi, "type">>),
     options |-> ParseOptions(body, qi)]

\* qs.parse(formText, {allowDots: true}) on the keys the form uses; every
\* index stays below qs's arrayLimit, so indexed keys build arrays.
Parse(body) ==
    LET is == {IndexOf(body[k].key[2]) :
                 k \in {k \in 1..Len(body) :
                          /\ Len(body[k].key) >= 2
                          /\ body[k].key[1] = "questions"}}
    IN [title |-> Val(body, <<"title">>),
        questions |->
          IF is = {} THEN NoArr
          ELSE Arr([n \in 1..Cardinality(is) |->
                      ParseQuestion(body, Idx(Nth(is, n)))])]

\* ----------------------------------------------------------- the loader
Template ==
    [title |-> Undefined,
     questions |-> Arr(<<
       [name |-> "What is your name?", type |-> "TEXT", options |-> NoArr],
       [name |-> "How old are you?", type |-> "NUMBER", options |-> NoArr],
       [name |-> "What is your favorite framework?", type |-> "RADIOLIST",
        options |-> NoArr]>>)]

\* ------------------------------------------------------------- rendering
Field(path, div, text) == [path |-> path, div |-> div, text |-> text]

\* lines 126-130: the title input and its error.
TitleField(tree) ==
    LET shown == Truthy(Get(tree, <<"title">>))
    IN Field(<<"title">>, shown,
             IF shown THEN Get(tree, <<"title", "message">>) ELSE Undefined)

\* get(errors, `${path}.message`) ? <div>{...}</div> : null
LookupField(tree, path) ==
    LET m == Get(tree, path \o <<"message">>)
    IN Field(path, Truthy(m), IF Truthy(m) THEN m ELSE Undefined)

\* The options editor follows the type the form was last loaded with.
ShowsOptionsAsLoaded(v, i) ==
    /\ i <= Len(Template.questions.items)
    /\ Template.questions.items[i].type = "RADIOLIST"

\* questionType === 'RADIOLIST' && <RadioOptionEditor/>, questionType being
\* watch(`questions.${index}.type`).
ShowsOptions(v, i) == v.questions.items[i].type = "RADIOLIST"

QuestionFields(v, tree, i) ==
    LET p == <<"questions", Idx(i - 1)>>
        q == v.questions.items[i]
    IN {LookupField(tree, p \o <<"name">>),
        Field(p \o <<"type">>, FALSE, Undefined)}
         \cup (IF ShowsOptions(v, i)
               THEN {LookupField(tree, p \o <<"options", Idx(j - 1), "label">>)
                       : j \in 1..Len(q.options.items)}
               ELSE {})

Render(v, tree) ==
    [fields |-> {TitleField(tree)}
                  \cup UNION {QuestionFields(v, tree, i)
                                : i \in 1..Len(v.questions.items)},
     editors |-> {i \in 1..Len(v.questions.items) : ShowsOptions(v, i)}]

NoView == [fields |-> {}, editors |-> {}]

\* ---------------------------------------------- requests from elsewhere
\* The action answers any POST, not only the editor's.  A body is described
\* by the fields it carries; a field that is Undefined is not sent.
Sent(key, val) == IF val = Undefined THEN <<>> ELSE <<Pair(key, val)>>

RECURSIVE RawLabels(_, _, _)
RawLabels(qi, items, n) ==
    IF n = 0 THEN <<>>
    ELSE RawLabels(qi, items, n - 1)
           \o Sent(<<"questions", qi, "options", Idx(n - 1), "label">>,
                   items[n].label)

RECURSIVE RawQuestions(_, _)
RawQuestions(items, n) ==
    IF n = 0 THEN <<>>
    ELSE RawQuestions(items, n - 1)
           \o Sent(<<"questions", Idx(n - 1), "name">>, items[n].name)
           \o Sent(<<"questions", Idx(n - 1), "type">>, items[n].type)
           \o RawLabels(Idx(n - 1), items[n].options.items,
                        Len(items[n].options.items))

BodyOf(raw) ==
    Sent(<<"title">>, raw.title)
      \o RawQuestions(raw.questions.items, Len(raw.questions.items))

PostedTitles == {Undefined, "", "T"}

PostedQuestions ==
    [name : {Undefined, "", "N"},
     type : {"TEXT", "RADIOLIST", "CHECKBOX"},
     options : {NoArr, Arr(<<[label |-> "L"]>>),
                Arr(<<[label |-> "L"], [label |-> ""]>>)}]

\* The body that carries title t and the questions qs.
Posted(t, qs) ==
    BodyOf([title |-> t, questions |-> IF qs = <<>> THEN NoArr ELSE Arr(qs)])

\* ------------------------------------------------------------------ state
VARIABLES
    values,       \* react-hook-form's field values
    ids,          \* fields[i].id of the questions field array
    nextId,       \* ids handed out so far
    errors,       \* formState.errors, the live tree
    isSubmitted,  \* formState.isSubmitted
    actionData,   \* useActionData()
    active,       \* validationErrors of the last render
    view,         \* what the last render put on the page
    mounted,      \* the editor is on the page
    request,      \* the last request body sent to the action
    inFlight,     \* that request has not been answered yet
    parsedForm,   \* the action's parsedForm for the last request
    issues,       \* the action's validation issues for the last request
    outcome,      \* "Pending", "Rejected" or "Accepted"
    location,     \* the redirect target, "" when none
    resets,       \* calls of reset() so far
    edits         \* value-changing interactions so far

vars == <<values, ids, nextId, errors, isSubmitted, actionData, active, view,
          mounted, request, inFlight, parsedForm, issues, outcome, location,
          resets, edits>>

NoData == [present |-> FALSE]
NoActionData == [present |-> FALSE, seq |-> 0, errors |-> {}, data |-> NoData]

\* json({errors: ...}): the response carries the tree and nothing else.  seq
\* tells one response object from the next.
Response(iss, n) ==
    [present |-> TRUE, seq |-> n, errors |-> ErrorTree(iss), data |-> NoData]

\* if (validatedForm): the result object itself, always truthy.
SuccessOfObject(iss) == TRUE

\* validatedForm.success
Success(iss) == iss = <<>>

\* An effect with an empty dependency list: it runs on mount only.
DepsNeverChange(before, after) == FALSE

\* useEffect(..., [template, actionData]): the effect runs again when a
\* dependency is another object than at the last render.
DepsChanged(before, after) == before # after

\* actionData?.data || template
ResetTarget(data) ==
    IF data.present /\ data.data.present THEN data.data.value ELSE Template

\* The values after reset(target) and the render that follows: the title
\* input, registered with no default, contributes its own value ''.
FormValues(target) ==
    [target EXCEPT !.title = IF @ = Undefined THEN "" ELSE @]

FreshIds(from, n) == [k \in 1..n |-> from + k - 1]

Questions == values.questions.items
QIndex == 1..Len(Questions)

\* The render that follows every state change.
Rerender ==
    /\ active' = ValidationErrors(actionData', errors')
    /\ view' = Render(values', active')

\* The page after the loader ran and the effect reset the form to the
\* template.
Init ==
    /\ values = FormValues(ResetTarget(NoActionData))
    /\ ids = FreshIds(1, Len(Template.questions.items))
    /\ nextId = Len(Template.questions.items) + 1
    /\ errors = {}
    /\ isSubmitted = FALSE
    /\ actionData = NoActionData
    /\ active = ValidationErrors(NoActionData, {})
    /\ view = Render(values, active)
    /\ mounted = TRUE
    /\ request = <<>>
    /\ inFlight = FALSE
    /\ parsedForm = Parse(<<>>)
    /\ issues = <<>>
    /\ outcome = "Pending"
    /\ location = ""
    /\ resets = 1
    /\ edits = 0

\* A document POST to the route on its way to the action; the page it will
\* be answered with is not there yet.
InitPost ==
    /\ values = [title |-> Undefined, questions |-> Arr(<<>>)]
    /\ ids = <<>>
    /\ nextId = 1
    /\ errors = {}
    /\ isSubmitted = FALSE
    /\ actionData = NoActionData
    /\ active = {}
    /\ view = NoView
    /\ mounted = FALSE
    /\ \E t \in PostedTitles, n \in 0..MaxBodyQuestions :
         \E qs \in [1..n -> PostedQuestions] : request = Posted(t, qs)
    /\ inFlight = TRUE
    /\ parsedForm = Parse(<<>>)
    /\ issues = <<>>
    /\ outcome = "Pending"
    /\ location = ""
    /\ resets = 0
    /\ edits = 0

server == <<request, inFlight, parsedForm, issues, outcome, location>>

\* An edit of a registered input: the value changes, the field is
\* re-validated once the form has been submitted, and the form re-renders.
Change(v, path) ==
    /\ mounted
    /\ edits < MaxEdits
    /\ v # values
    /\ values' = v
    /\ errors' = Revalidate(errors, isSubmitted, v, path)
    /\ edits' = edits + 1
    /\ UNCHANGED <<ids, nextId, isSubmitted, actionData, mounted, resets>>
    /\ UNCHANGED server
    /\ Rerender

SetTitle(t) == Change([values EXCEPT !.title = t], <<"title">>)

SetName(i, n) ==
    Change([values EXCEPT !.questions.items[i].name = n],
           <<"questions", Idx(i - 1), "name">>)

SetType(i, t) ==
    Change([values EXCEPT !.questions.items[i].type = t],
           <<"questions", Idx(i - 1), "type">>)

SetLabel(i, j, l) ==
    /\ i \in view.editors
    /\ j \in 1..Len(Questions[i].options.items)
    /\ Change([values EXCEPT !.questions.items[i].options.items[j].label = l],
              <<"questions", Idx(i - 1), "options", Idx(j - 1), "label">>)

\* A new question that takes the place of the first one.
AppendedFirst(items, item) == <<item>> \o Tail(items)

\* append(item) of useFieldArray
Appended(items, item) == Append(items, item)

\* The Add Question button.
AddQuestion ==
    /\ mounted
    /\ edits < MaxEdits
    /\ Len(Questions) < MaxQuestions
    /\ values' = [values EXCEPT !.questions.items =
                    Appended(@, [name |-> "", type |-> "TEXT", options |-> NoArr])]
    /\ ids' = Appended(ids, nextId)
    /\ nextId' = nextId + 1
    /\ edits' = edits + 1
    /\ UNCHANGED <<errors, isSubmitted, actionData, mounted, resets>>
    /\ UNCHANGED server
    /\ Rerender

\* The Add Option button of a rendered options editor.
AddOption(i) ==
    /\ mounted
    /\ edits < MaxEdits
    /\ i \in view.editors
    /\ Len(Questions[i].options.items) < MaxOptions
    /\ values' = [values EXCEPT !.questions.items[i].options =
                    Arr(Appended(@.items, [label |-> ""]))]
    /\ edits' = edits + 1
    /\ UNCHANGED <<ids, nextId, errors, isSubmitted, actionData, mounted, resets>>
    /\ UNCHANGED server
    /\ Rerender

\* handleSubmit(submitHookForm): the resolver runs on all the values; the
\* request leaves only when it finds nothing.
Submit ==
    /\ mounted
    /\ errors' = zodResolver(values)
    /\ isSubmitted' = TRUE
    /\ IF IsEmpty(errors')
       THEN request' = Flatten(values) /\ inFlight' = TRUE
       ELSE UNCHANGED <<request, inFlight>>
    /\ UNCHANGED <<values, ids, nextId, actionData, mounted, resets, edits,
                   parsedForm, issues, outcome, location>>
    /\ Rerender

\* The action, and the page that shows its answer: a redirect leaves the
\* editor; a json answer becomes actionData, the effect resets the form
\* and the editor renders again.
Action ==
    /\ inFlight
    /\ inFlight' = FALSE
    /\ parsedForm' = Parse(request)
    /\ issues' = SafeParse(parsedForm')
    /\ IF Success(issues')
       THEN /\ outcome' = "Accepted"
            /\ location' = "/templates/1"
            /\ mounted' = FALSE
            /\ active' = {}
            /\ view' = NoView
            /\ UNCHANGED <<values, ids, nextId, errors, isSubmitted, actionData,
                           resets>>
       ELSE /\ outcome' = "Rejected"
            /\ actionData' = Response(issues', actionData.seq + 1)
            /\ mounted' = TRUE
            /\ IF DepsChanged(<<Template, actionData>>, <<Template, actionData'>>)
               THEN /\ values' = FormValues(ResetTarget(actionData'))
                    /\ ids' = FreshIds(nextId, Len(values'.questions.items))
                    /\ nextId' = nextId + Len(values'.questions.items)
                    /\ errors' = {}
                    /\ isSubmitted' = FALSE
                    /\ resets' = resets + 1
               ELSE UNCHANGED <<values, ids, nextId, errors, isSubmitted, resets>>
            /\ Rerender
            /\ UNCHANGED location
    /\ UNCHANGED <<request, edits>>

Next ==
    \/ \E t \in {"", "T"} : SetTitle(t)
    \/ \E i \in QIndex, n \in {"", "Q"} : SetName(i, n)
    \/ \E i \in QIndex, t \in QuestionTypes : SetType(i, t)
    \/ \E i \in QIndex, j \in 1..MaxOptions, l \in {"", "L"} : SetLabel(i, j, l)
    \/ AddQuestion
    \/ \E i \in QIndex : AddOption(i)
    \/ Submit
    \/ Action

Spec == Init /\ [][Next]_vars

NextPost ==
    \/ Action
    \/ Submit

SpecPost == InitPost /\ [][NextPost]_vars

\* ----------------------------------------------------------------- claims
Missing(s) == s = Undefined \/ s = ""

\* The fields of a decoded form that break a rule of the data model, read
\* off the value itself.
ViolatingFields(v) ==
    {p \in {<<"title">>} : Missing(v.title)}
      \cup UNION {
             {p \in {<<"questions", Idx(i - 1), "name">>} :
                Missing(v.questions.items[i].name)}
               \cup {p \in {<<"questions", Idx(i - 1), "type">>} :
                       v.questions.items[i].type \notin {"TEXT", "NUMBER", "RADIOLIST"}}
               \cup {<<"questions", Idx(i - 1), "options", Idx(j - 1), "label">> :
                       j \in {j \in 1..Len(v.questions.items[i].options.items) :
                                Missing(v.questions.items[i].options.items[j].label)}}
             : i \in 1..Len(v.questions.items)}

IssuePaths == {issues[k].path : k \in 1..Len(issues)}

\* C1: validation does not stop at the first violation.  For every request
\* the action decoded into a form with a questions list, the issues are
\* exactly one per violating field (missing title, missing name, type
\* outside the enumeration, empty label), each under that field's path; in
\* particular N questions without a name give N issues.
C1_OneIssuePerViolatingField ==
    (outcome # "Pending" /\ parsedForm.questions.kind = "array") =>
        /\ IssuePaths = ViolatingFields(parsedForm)
        /\ Len(issues) = Cardinality(ViolatingFields(parsedForm))

\* Two questions, both without a name, in an otherwise valid form: two
\* issues.
C1_Witness ==
    /\ outcome = "Rejected"
    /\ parsedForm.title = "T"
    /\ Len(parsedForm.questions.items) = 2
    /\ \A i \in 1..2 : /\ parsedForm.questions.items[i].name = Undefined
                       /\ parsedForm.questions.items[i].type = "TEXT"
                       /\ parsedForm.questions.items[i].options = NoArr
    /\ Len(issues) = 2

ValidForm(v) ==
    /\ v.questions.kind = "array"
    /\ ViolatingFields(v) = {}

\* C2: the action accepts exactly the decoded submissions that are valid.
\* A valid one is answered by the redirect to /templates/1 and no error
\* tree; any other by {errors} with a non-empty tree and no redirect.
C2_AcceptedIffValid ==
    outcome # "Pending" =>
        /\ (outcome = "Accepted") <=> ValidForm(parsedForm)
        /\ outcome = "Accepted" =>
             (location = "/templates/1" /\ ~actionData.present)
        /\ outcome = "Rejected" =>
             (location = "" /\ actionData.present /\ actionData.errors # {})

C2_Witness ==
    /\ outcome = "Accepted"
    /\ location = "/templates/1"
    /\ Len(parsedForm.questions.items) = 2
    /\ parsedForm.questions.items[2].options.kind = "array"

WellFormedQuestions ==
    {[name |-> "N", type |-> "TEXT", options |-> NoArr],
     [name |-> "N", type |-> "RADIOLIST", options |-> Arr(<<>>)],
     [name |-> "N", type |-> "RADIOLIST", options |-> Arr(<<[label |-> "L"]>>)]}

WellFormedForms ==
    {[title |-> "T", questions |-> Arr(qs)] :
       qs \in UNION {[1..n -> WellFormedQuestions] : n \in 0..MaxBodyQuestions}}

\* C3: for every well-formed form, zero questions and zero options
\* included, the form's flat encoding decodes in the action to a value
\* equal to the form.
C3_RoundTrip ==
    \A v \in WellFormedForms :
        (outcome # "Pending" /\ request = Flatten(v)) => parsedForm = v

IsErrorField(path) == path[Len(path)] \in {"title", "name", "label"}

\* C4: after a rejection, each issue's message is the value at the issue's
\* path of the tree the action built, the field rendered at that path shows
\* that message, and a field with no issue shows nothing.
C4_ServerErrorsShownAtTheirFields ==
    (mounted /\ outcome = "Rejected" /\ active = actionData.errors) =>
        /\ \A k \in 1..Len(issues) :
             /\ Get(actionData.errors, issues[k].path) = issues[k].message
             /\ \A f \in view.fields :
                  (f.path = issues[k].path /\ IsErrorField(f.path))
                     => f.text = issues[k].message
        /\ \A f \in view.fields :
             f.path \notin IssuePaths => (~f.div /\ f.text = Undefined)

\* C5: Add Question puts exactly one item at the end, with a blank name,
\* type TEXT and no options list; the title, the earlier questions and
\* their ids stay as they were, and the new id is none of the earlier ones.
C5_AppendKeepsSiblings ==
    [][(nextId' = nextId + 1 /\ resets' = resets) =>
         LET n == Len(values.questions.items)
         IN /\ Len(values'.questions.items) = n + 1
            /\ SubSeq(values'.questions.items, 1, n) = values.questions.items
            /\ values'.questions.items[n + 1]
                 = [name |-> "", type |-> "TEXT", options |-> NoArr]
            /\ values'.title = values.title
            /\ Len(ids') = n + 1
            /\ SubSeq(ids', 1, n) = ids
            /\ \A k \in 1..n : ids[k] # ids'[n + 1]]_vars

\* A question was added behind questions the user had edited.
C5_Witness ==
    /\ mounted
    /\ Len(values.questions.items) = Len(Template.questions.items) + 1
    /\ values.questions.items[1].name = "Q"
    /\ values.questions.items[Len(values.questions.items)].name = ""
    /\ Cardinality({ids[k] : k \in 1..Len(ids)}) = Len(ids)

\* C6: the options of a question whose live type is not RADIOLIST are
\* ignored by validation: they yield no issue, empty labels included.
C6_OptionsIgnoredUnlessRadioList ==
    mounted =>
        \A i \in QIndex :
            Questions[i].type # "RADIOLIST" =>
                \A k \in 1..Len(SafeParse(values)) :
                    ~IsPrefix(<<"questions", Idx(i - 1), "options">>,
                              SafeParse(values)[k].path)

\* C7: the tree the form renders from is the live tree when that is not
\* empty, else the server's when there is a rejection response, else empty.
C7_LiveTreeFirst ==
    mounted =>
        active = IF errors # {} THEN errors
                 ELSE IF actionData.present THEN actionData.errors
                 ELSE {}

\* Both trees exist and the live one is rendered.
C7_Witness ==
    /\ mounted
    /\ actionData.present
    /\ actionData.errors # {}
    /\ errors # {}
    /\ active = errors

Front(path) == SubSeq(path, 1, Len(path) - 1)

\* The (path, message) pairs of the tree the form renders from.
ActiveErrors ==
    IF active = errors
    THEN {[path |-> Front(l.path), message |-> l.val] :
            l \in {l \in errors : l.path[Len(l.path)] = "message"}}
    ELSE {[path |-> l.path, message |-> l.val] : l \in active}

\* C8: every error of the active tree is shown by a rendered control at the
\* error's path.
C8_EveryErrorIsShown ==
    mounted =>
        \A e \in ActiveErrors :
            \E f \in view.fields : f.path = e.path /\ f.text = e.message

\* C9: the form is reset exactly when the action response changes: to the
\* values the response carries when it carries any, to the template
\* otherwise; no other step resets it.
C9_ResetOnResponseOnly ==
    [][/\ actionData' # actionData =>
            /\ resets' = resets + 1
            /\ errors' = {}
            /\ IF actionData'.data.present
               THEN values' = actionData'.data.value
               ELSE /\ values'.questions = Template.questions
                    /\ ~Truthy(values'.title)
       /\ actionData' = actionData => resets' = resets]_vars

\* A rejection was answered and the form went back to the template.
C9_Witness ==
    /\ outcome = "Rejected"
    /\ actionData.present
    /\ resets = 1
    /\ values.questions = Template.questions

\* C10: the options editor of a question is rendered exactly when the
\* question's live type is RADIOLIST, whatever it was loaded with.
C10_OptionsEditorFollowsLiveType ==
    mounted =>
        /\ view.editors = {i \in QIndex : Questions[i].type = "RADIOLIST"}
        /\ \A i \in QIndex, j \in 1..MaxOptions :
             (\E f \in view.fields :
                 f.path = <<"questions", Idx(i - 1), "options", Idx(j - 1), "label">>)
               <=> (/\ Questions[i].type = "RADIOLIST"
                    /\ j <= Len(Questions[i].options.items))

\* A question loaded as TEXT now shows the editor, and the one loaded as
\* RADIOLIST no longer does.
C10_Witness ==
    /\ mounted
    /\ Questions[1].type = "RADIOLIST"
    /\ 1 \in view.editors
    /\ Questions[3].type = "TEXT"
    /\ 3 \notin view.editors

====
